---------------------------- MODULE Spec2Model ----------------------------
(***************************************************************************)
(* A model of crawler.py: the crawl loop of create_nepali_corpus, its      *)
(* checkpoint (save_state / load_state), the shutdown flag set by          *)
(* handle_shutdown, and the process being started, killed and resumed.     *)
(*                                                                         *)
(* The web is what the fetches may return: links[u] holds the sets of       *)
(* in-scope links get_internal_links may find on page u, lines[u] the      *)
(* numbers of lines the Nepali text extract_nepali_text_from_url extracts  *)
(* from it may have (0 for None or an empty text).  Under Init any page    *)
(* may show anything, at every fetch anew; under InitFixedWeb each page    *)
(* shows one thing.  A fetch may also fail on its own (the except branches *)
(* of the two functions).                                                  *)
(*                                                                         *)
(* A restart without --resume is not modelled after the first start: it is *)
(* a fresh crawl, as the first one, over the files the earlier runs left.  *)
(*                                                                         *)
(* The handler may run between any two steps of the loop, between the loop *)
(* test and the pop included.  The state file the first start finds may be *)
(* one the program did not write.  normalize_url is modelled on strings as *)
(* sequences of characters, apart from the crawl, whose urls stand for     *)
(* links already normalized.                                               *)
(***************************************************************************)
EXTENDS Integers, Sequences, FiniteSets, TLC

\* ------------------------------------------------------------------ bounds
\* max_pages, max_depth and SAVE_INTERVAL are 150, 10 and 100 in the source
\* (lines 30, 31, 35); the model runs them scaled down.
max_pages == 2
max_depth == 2
SAVE_INTERVAL == 1
\* How many times the process is started (the first start included).
MaxRuns == 2

\* The in-scope pages of the site; url is the start page (TARGET_URL), which
\* matches none of URL_PATTERNS and so is never a link itself.
UrlSeq == <<"a", "b", "c">>
URLs == {UrlSeq[i] : i \in 1..Len(UrlSeq)}
url == "start"

\* ------------------------------------------------------------------ state
VARIABLES
  pc,             \* where the process is: idle, head, body, page, periodic,
                  \* links, finally, done, crashed, killed, aborted
  queue,          \* the frontier: a sequence of <<url, depth>>
  visited,        \* set of urls
  page_count,     \* pages saved
  crawled_pages,  \* pages crawled
  cur,            \* <<current_url, current_depth>> of the iteration in flight
  shutdown_flag,  \* the global set by handle_shutdown
  exc,            \* the exception in flight when the finally block runs
  saved,          \* outcome of this run's last save_state call: none, ok, err
  resumed,        \* whether this run restored its state from the checkpoint
  disk,           \* the state file: [exists, bytes]
  files,          \* the saved pages: index -> the url whose text it holds
  links,          \* web: page -> the sets of in-scope links it may show
  lines,          \* web: page -> the line counts its Nepali text may have
  depthOf,        \* history: the depth each visited url was processed at
  runs,           \* number of starts so far
  href,           \* a link as a page gives it: a sequence of characters
  full_url,       \* what normalize_url has made of it
  applied         \* how many times normalize_url has been applied to it

vars == <<pc, queue, visited, page_count, crawled_pages, cur, shutdown_flag,
          exc, saved, resumed, disk, files, links, lines, depthOf, runs,
          href, full_url, applied>>

crawl == <<queue, visited, page_count, crawled_pages>>
web == <<links, lines>>
norm == <<href, full_url, applied>>

NoCur == <<"", 0>>
Running == {"head", "body", "page", "periodic", "links", "finally"}
Stopped == {"idle", "done", "crashed", "killed", "aborted"}

\* ------------------------------------------------------------- pure parts

\* Strings are sequences of characters.  The links tried are a lead-in
\* followed by up to MaxTail characters among ":", "/" and "x".
MaxTail == 4
MaxApplied == 2
Http == <<"h", "t", "t", "p">>
Https == <<"h", "t", "t", "p", "s">>
Leads ==
  {<< >>, Http, Https, <<"f", "t", "p">>, <<"x">> \o Http, Https \o <<"s">>}
Tails == UNION {[1..n -> {":", "/", "x"}] : n \in 0..MaxTail}
Hrefs == {l \o t : l \in Leads, t \in Tails}

StartsWith(u, p) == Len(u) >= Len(p) /\ SubSeq(u, 1, Len(p)) = p

\* The pattern without its [^/]: any string that starts with http:/ matches.
Matches_AnySlash(u, scheme) == StartsWith(u, scheme \o <<":", "/">>)

\* ^https?:/[^/] (lines 73-75), for one of the two schemes https? stands
\* for: the scheme, ":/" and one more character that is not "/".
Matches(u, scheme) ==
  /\ StartsWith(u, scheme \o <<":", "/">>)
  /\ Len(u) >= Len(scheme) + 3
  /\ u[Len(scheme) + 3] # "/"

\* re.sub(r'^(https?:)/([^/])', r'\1//\2', url): a second "/" after the
\* first, the rest as it was.
Substituted(u, scheme) ==
  SubSeq(u, 1, Len(scheme) + 2) \o <<"/">>
    \o SubSeq(u, Len(scheme) + 3, Len(u))

\* normalize_url (lines 69-76)
normalize_url(u) ==
  IF Matches(u, Https) THEN Substituted(u, Https)
  ELSE IF Matches(u, Http) THEN Substituted(u, Http)
  ELSE u

\* Every order a Python set can be iterated in.
RECURSIVE Orderings(_)
Orderings(S) ==
  IF S = {} THEN {<< >>}
  ELSE UNION {{<<x>> \o s : s \in Orderings(S \ {x})} : x \in S}

\* The crawl state as the dict the code pickles.
State(q, v, p, c) ==
  [queue |-> q, visited |-> v, page_count |-> p, crawled_pages |-> c]

\* pickle, modelled as a flat stream of numbers: the dict's values in the
\* order of its keys, then the STOP opcode that ends every pickle:
\*   n, (url, depth) * n, m, url * m, page_count, crawled_pages, Stop
\* A dict with fewer keys is the same stream with the later values missing.
Stop == -1
Enc(u) == CHOOSE i \in 1..Len(UrlSeq) : UrlSeq[i] = u
Dec(i) == UrlSeq[i]

RECURSIVE DumpQueue(_)
DumpQueue(q) ==
  IF q = << >> THEN << >>
  ELSE <<Enc(q[1][1]), q[1][2]>> \o DumpQueue(Tail(q))

RECURSIVE DumpSet(_)
DumpSet(S) ==
  IF S = {} THEN << >>
  ELSE LET m == CHOOSE x \in S : \A y \in S : Enc(x) <= Enc(y)
       IN  <<Enc(m)>> \o DumpSet(S \ {m})

Dump(st) ==
  <<Len(st.queue)>> \o DumpQueue(st.queue)
    \o <<Cardinality(st.visited)>> \o DumpSet(st.visited)
    \o <<st.page_count, st.crawled_pages>>
    \o <<Stop>>

\* The number of keys of the dict the values c make up, or -1 when they make
\* up none.
KeysIn(c) ==
  IF Len(c) = 0 THEN 0
  ELSE IF ~(/\ c[1] >= 0
            /\ Len(c) >= 1 + 2 * c[1]
            /\ \A i \in 1..c[1] : c[2 * i] \in 1..Len(UrlSeq)) THEN -1
  ELSE IF Len(c) = 1 + 2 * c[1] THEN 1
  ELSE LET n == c[1]
           m == c[2 + 2 * n]
           rest == Len(c) - (2 + 2 * n + m)
       IN  IF /\ m >= 0
              /\ rest \in 0..2
              /\ \A j \in 1..m : c[2 + 2 * n + j] \in 1..Len(UrlSeq)
             THEN 2 + rest
             ELSE -1

\* A whole pickle ends with Stop; pickle.load raises on any other stream.
Whole(b) == Len(b) >= 1 /\ b[Len(b)] = Stop

\* load_state (lines 181-190): the dict pickle.load returns, with the number
\* of keys it has, or None (ok false) when pickle.load raises: the stream is
\* not a whole pickle, or what is before Stop makes up no dict.
Load(b) ==
  IF ~Whole(b)
    THEN [ok |-> FALSE, keys |-> 0, state |-> State(<< >>, {}, 0, 0)]
  ELSE LET k == KeysIn(SubSeq(b, 1, Len(b) - 1))
           n == b[1]
           m == b[2 + 2 * n]
       IN  IF k < 0
             THEN [ok |-> FALSE, keys |-> 0, state |-> State(<< >>, {}, 0, 0)]
           ELSE IF k < 4
             THEN [ok |-> TRUE, keys |-> k, state |-> State(<< >>, {}, 0, 0)]
           ELSE [ok |-> TRUE, keys |-> 4,
                 state |->
                   State([i \in 1..n |-> <<Dec(b[2 * i]), b[2 * i + 1]>>],
                         {Dec(b[2 + 2 * n + j]) : j \in 1..m},
                         b[3 + 2 * n + m],
                         b[4 + 2 * n + m])]

\* What a write cut short leaves in the file: open(state_file, 'wb') has
\* emptied it and the buffered dump has not reached it.
Truncated(b) == SubSeq(b, 1, 0)

\* `if state:` read as "the restored crawl has work or history".
Truthy_NonEmpty(ld) ==
  ld.ok /\ (ld.state.queue # << >> \/ ld.state.visited # {})

\* `if state:` (line 205): None and {} are falsy, a dict with a key is truthy.
Truthy(ld) == ld.ok /\ ld.keys > 0

\* lines 206-209 read the four keys: a dict without one raises KeyError.
Complete(ld) == ld.keys = 4

\* The state file the first start may find: none, or one this program did
\* not write, the pickle of a dict with the key 'queue' alone.
NoFile == [exists |-> FALSE, bytes |-> << >>]
FoundFiles ==
  {NoFile,
   [exists |-> TRUE, bytes |-> <<0, Stop>>]}

\* get_internal_links: what it may return: the links the page shows, or
\* set() when the fetch fails.
get_internal_links(u, fail) == IF fail THEN {{}} ELSE links[u]

\* extract_nepali_text_from_url: what it may return, as the number of lines
\* of the text (0 for None, also when the fetch fails).
extract_nepali_text_from_url(u, fail) == IF fail THEN {0} ELSE lines[u]

\* Line 254 without its `if text`: a failed extraction counts as a page.
Accepted_Any(n) == n >= 0

\* line 254: nepali_text and len(nepali_text.splitlines()) > 1
Accepted(n) == n > 1

\* Line 239 left out: a processed url is not marked.
Marked_Not(v, u) == v

\* line 239: visited.add(current_url)
Marked(v, u) == v \cup {u}

\* Line 240 left out: a processed url is not counted.
Counted_Not(c) == c

\* line 240: crawled_pages += 1
Counted(c) == c + 1

\* line 233 with <= for <.
LoopCond_Inclusive ==
  page_count <= max_pages /\ queue # << >> /\ ~shutdown_flag

\* line 233
\* The loop condition without the flag: the loop never learns of a signal.
LoopCond_Unflagged == page_count < max_pages /\ queue # << >>

LoopCond == page_count < max_pages /\ queue # << >> /\ ~shutdown_flag

\* queue.pop() for queue.pop(0).
Popped_Last(q) == [item |-> q[Len(q)], rest |-> SubSeq(q, 1, Len(q) - 1)]

\* line 234: queue.pop(0)
Popped(q) == [item |-> Head(q), rest |-> Tail(q)]

\* line 236 without the visited test.
Skip_DepthOnly(u, d) == d > max_depth

\* line 236
Skip(u, d) == u \in visited \/ d > max_depth

\* line 274 without the visited test.
Enqueueable_Always(l) == TRUE

\* line 274
Enqueueable(l) == l \notin visited

\* Line 275 with + 2: links enqueued two levels below their page.
ChildDepth_Skipping(d) == d + 2

\* line 275
ChildDepth(d) == d + 1

\* line 271 stopping one level early.
Expands_Shallow(d) == d < max_depth - 1

\* line 271 with <= for <.
Expands_Inclusive(d) == d <= max_depth

\* line 271
Expands(d) == d < max_depth

\* Lines 261-268 left out: no checkpoint inside the loop.
PeriodicDue_Never(p) == FALSE

\* line 261
PeriodicDue(p) == p % SAVE_INTERVAL = 0

\* lines 273-275: the links, in the set's iteration order s, appended
Appended(s, d) ==
  LET keep == SelectSeq(s, Enqueueable)
  IN  [i \in 1..Len(keep) |-> <<keep[i], ChildDepth(d)>>]

\* lines 215, 222
Seeded(s) == [i \in 1..Len(s) |-> <<s[i], 1>>]

\* ------------------------------------------------------------------ Init
InitProcess ==
  /\ pc = "idle"
  /\ queue = << >>
  /\ visited = {}
  /\ page_count = 0
  /\ crawled_pages = 0
  /\ cur = NoCur
  /\ shutdown_flag = FALSE
  /\ exc = "none"
  /\ saved = "none"
  /\ resumed = FALSE
  /\ disk \in FoundFiles
  /\ files = << >>
  /\ depthOf = [u \in URLs |-> 0]
  /\ runs = 0

\* The crawl is modelled over links already normalized.
NoHref ==
  /\ href = << >>
  /\ full_url = << >>
  /\ applied = 0

\* Any page may show any links and any text, and may change between fetches.
Init ==
  /\ InitProcess
  /\ NoHref
  /\ links = [u \in URLs \cup {url} |-> SUBSET URLs]
  /\ lines = [u \in URLs |-> 0..2]

\* No state file, and a web that stays as it is: each page shows one set of
\* links and one text,
\* of one line (rejected, as no text is) or of two.
InitFixedWeb ==
  /\ InitProcess
  /\ NoHref
  /\ disk = NoFile
  /\ links \in [URLs \cup {url} -> {{S} : S \in SUBSET URLs}]
  /\ lines \in [URLs -> {{n} : n \in 1..2}]

\* No crawl; a link, about to be normalized (line 102).
InitNormalize ==
  /\ InitProcess
  /\ disk = NoFile
  /\ links = [u \in URLs \cup {url} |-> {{}}]
  /\ lines = [u \in URLs |-> {0}]
  /\ href \in Hrefs
  /\ full_url = href
  /\ applied = 0

\* --------------------------------------------------------------- actions

\* line 102: full_url = normalize_url(full_url)
Normalize ==
  /\ applied < MaxApplied
  /\ full_url' = normalize_url(full_url)
  /\ applied' = applied + 1
  /\ UNCHANGED <<pc, crawl, cur, shutdown_flag, exc, saved, resumed, disk,
                 files, web, depthOf, runs, href>>

\* lines 213-219, 221-226: a fresh crawl state, seeded from the start page.
Fresh(fail) ==
  \E ls \in get_internal_links(url, fail) : \E s \in Orderings(ls) :
    /\ queue' = Seeded(s)
    /\ visited' = {}
    /\ page_count' = 0
    /\ crawled_pages' = 0
    /\ resumed' = FALSE
    /\ depthOf' = [u \in URLs |-> 0]

\* lines 206-209
Restore(st) ==
  /\ queue' = st.queue
  /\ visited' = st.visited
  /\ page_count' = st.page_count
  /\ crawled_pages' = st.crawled_pages
  /\ resumed' = TRUE
  /\ UNCHANGED depthOf

\* main and lines 203-229: the process starts, with or without --resume.
\* After the first start only resumes are modelled.
Start(resume, fail) ==
  /\ pc \in Stopped
  /\ runs < MaxRuns
  /\ resume \/ pc = "idle"
  /\ ~(resume /\ disk.exists /\ Truthy(Load(disk.bytes))
         /\ ~Complete(Load(disk.bytes)))
  /\ runs' = runs + 1
  /\ pc' = "head"
  /\ cur' = NoCur
  /\ shutdown_flag' = FALSE
  /\ exc' = "none"
  /\ saved' = "none"
  /\ IF resume /\ disk.exists /\ Truthy(Load(disk.bytes))
       THEN Restore(Load(disk.bytes).state)
       ELSE Fresh(fail)
  /\ UNCHANGED <<disk, files, web, norm>>

\* lines 203-209, the loaded object truthy but not the dict save_state
\* writes: state['queue'] (or a later key) raises, outside any try, and the
\* process ends before the loop, nothing saved.
StartAborts ==
  /\ pc \in Stopped
  /\ runs < MaxRuns
  /\ disk.exists
  /\ Truthy(Load(disk.bytes))
  /\ ~Complete(Load(disk.bytes))
  /\ runs' = runs + 1
  /\ pc' = "aborted"
  /\ exc' = "KeyError"
  /\ UNCHANGED <<crawl, cur, shutdown_flag, saved, resumed, disk, files, web,
                 norm,                 depthOf>>

\* line 233, the condition false: leave the loop for the finally block.
LoopExit ==
  /\ pc = "head"
  /\ ~LoopCond
  /\ pc' = "finally"
  /\ UNCHANGED <<crawl, cur, shutdown_flag, exc, saved, resumed, disk, files,
                 web, norm, depthOf, runs>>

\* line 233, the condition true: enter the loop body. The handler may run
\* between the test and the pop.
LoopEnter ==
  /\ pc = "head"
  /\ LoopCond
  /\ pc' = "body"
  /\ UNCHANGED <<crawl, cur, shutdown_flag, exc, saved, resumed, disk, files,
                 web, norm, depthOf, runs>>

\* lines 234-237: pop the head; a visited or too deep entry is dropped.
Discard ==
  /\ pc = "body"
  /\ pc' = "head"
  /\ Skip(Popped(queue).item[1], Popped(queue).item[2])
  /\ cur' = Popped(queue).item
  /\ queue' = Popped(queue).rest
  /\ UNCHANGED <<visited, page_count, crawled_pages, shutdown_flag, exc,
                 saved, resumed, disk, files, web, norm, depthOf, runs>>

\* lines 234-240: pop the head, mark it visited, count it.
Visit ==
  /\ pc = "body"
  /\ ~Skip(Popped(queue).item[1], Popped(queue).item[2])
  /\ cur' = Popped(queue).item
  /\ queue' = Popped(queue).rest
  /\ visited' = Marked(visited, Popped(queue).item[1])
  /\ crawled_pages' = Counted(crawled_pages)
  /\ depthOf' = [depthOf EXCEPT ![Popped(queue).item[1]] = Popped(queue).item[2]]
  /\ pc' = "page"
  /\ UNCHANGED <<page_count, shutdown_flag, exc, saved, resumed, disk, files,
                 web, norm, runs>>

\* lines 252-258: extract the text; an accepted page is written to
\* page_{page_count + 1}.txt and counted.
Page(fail) ==
  /\ pc = "page"
  /\ \E n \in extract_nepali_text_from_url(cur[1], fail) :
         IF Accepted(n)
           THEN /\ files' = [i \in DOMAIN files \cup {page_count + 1} |->
                               IF i = page_count + 1 THEN cur[1] ELSE files[i]]
                /\ page_count' = page_count + 1
                /\ pc' = IF PeriodicDue(page_count + 1) THEN "periodic"
                                                        ELSE "links"
           ELSE /\ pc' = "links"
                /\ UNCHANGED <<files, page_count>>
  /\ UNCHANGED <<queue, visited, crawled_pages, cur, shutdown_flag, exc,
                 saved, resumed, disk, web, norm, depthOf, runs>>

\* line 152: os.makedirs in save_text_to_file is outside its try; its error
\* leaves the loop through the finally block.
PageRaises ==
  /\ pc = "page"
  /\ \E n \in extract_nepali_text_from_url(cur[1], FALSE) : Accepted(n)
  /\ exc' = "OSError"
  /\ pc' = "finally"
  /\ UNCHANGED <<crawl, cur, shutdown_flag, saved, resumed, disk, files, web,
                 norm,                 depthOf, runs>>

\* save_state (lines 171-178): the file gets the pickled state; an error is
\* printed and swallowed (the open fails, or the dump fails mid-file).
save_state(outcome) ==
  /\ outcome = "ok" =>
       /\ disk' = [exists |-> TRUE,
                   bytes |-> Dump(State(queue, visited, page_count,
                                        crawled_pages))]
       /\ saved' = "ok"
  /\ outcome = "open_err" =>
       /\ disk' = disk
       /\ saved' = "err"
  /\ outcome = "dump_err" =>
       /\ disk' = [exists |-> TRUE,
                   bytes |-> Truncated(Dump(State(queue, visited, page_count,
                                                  crawled_pages)))]
       /\ saved' = "err"

SaveOutcomes == {"ok", "open_err", "dump_err"}

\* lines 261-268: the periodic checkpoint.
Periodic(outcome) ==
  /\ pc = "periodic"
  /\ save_state(outcome)
  /\ pc' = "links"
  /\ UNCHANGED <<crawl, cur, shutdown_flag, exc, resumed, files, web, norm,
                 depthOf, runs>>

\* lines 271-275: enqueue the page's links that are not visited.
Links(fail) ==
  /\ pc = "links"
  /\ IF Expands(cur[2])
       THEN \E ls \in get_internal_links(cur[1], fail) :
              \E s \in Orderings(ls) :
                queue' = queue \o Appended(s, cur[2])
       ELSE queue' = queue
  /\ pc' = "head"
  /\ UNCHANGED <<visited, page_count, crawled_pages, cur, shutdown_flag, exc,
                 saved, resumed, disk, files, web, norm, depthOf, runs>>

\* The final checkpoint written after the loop instead of in a finally block:
\* an exception skips it.
Finally_AfterLoop(outcome) ==
  /\ pc = "finally"
  /\ IF exc = "none" THEN save_state(outcome) ELSE UNCHANGED <<disk, saved>>
  /\ pc' = IF exc = "none" THEN "done" ELSE "crashed"
  /\ UNCHANGED <<crawl, cur, shutdown_flag, exc, resumed, files, web, norm,
                 depthOf, runs>>

\* lines 282-294: the final checkpoint, then the function returns, or the
\* exception goes on to end the process.
Finally(outcome) ==
  /\ pc = "finally"
  /\ save_state(outcome)
  /\ pc' = IF exc = "none" THEN "done" ELSE "crashed"
  /\ UNCHANGED <<crawl, cur, shutdown_flag, exc, resumed, files, web, norm,
                 depthOf, runs>>

\* A handler that flips the flag on every signal.
Signalled_Toggle(flag) == ~flag

\* lines 195-199: the flag after a signal; set if it was not, else left.
Signalled(flag) == IF ~flag THEN TRUE ELSE flag

\* handle_shutdown (lines 193-199), run on SIGINT or SIGTERM.
handle_shutdown ==
  /\ pc \in Running
  /\ shutdown_flag' = Signalled(shutdown_flag)
  /\ UNCHANGED <<pc, crawl, cur, exc, saved, resumed, disk, files, web, norm,
                 depthOf, runs>>

\* What is left of the process's memory once it is gone.
Wiped ==
  /\ queue' = << >>
  /\ visited' = {}
  /\ page_count' = 0
  /\ crawled_pages' = 0
  /\ cur' = NoCur
  /\ shutdown_flag' = FALSE
  /\ exc' = "none"
  /\ saved' = "none"
  /\ resumed' = FALSE

\* The process is killed (SIGKILL, power loss) anywhere outside a write.
Kill ==
  /\ pc \in Running
  /\ pc' = "killed"
  /\ Wiped
  /\ UNCHANGED <<disk, files, web, norm, depthOf, runs>>

\* The process is killed inside save_state, the state file half written.
KillInSave ==
  /\ pc \in {"periodic", "finally"}
  /\ pc' = "killed"
  /\ Wiped
  /\ disk' = [exists |-> TRUE,
              bytes |-> Truncated(Dump(State(queue, visited, page_count,
                                             crawled_pages)))]
  /\ UNCHANGED <<files, web, norm, depthOf, runs>>

Next ==
  \/ \E r \in BOOLEAN, f \in BOOLEAN : Start(r, f)
  \/ StartAborts
  \/ LoopExit
  \/ LoopEnter
  \/ Discard
  \/ Visit
  \/ \E f \in BOOLEAN : Page(f)
  \/ PageRaises
  \/ \E o \in SaveOutcomes : Periodic(o)
  \/ \E f \in BOOLEAN : Links(f)
  \/ \E o \in SaveOutcomes : Finally(o)
  \/ handle_shutdown
  \/ Kill
  \/ KillInSave

Spec == Init /\ [][Next]_vars

\* The same program where no fetch fails, no write fails and nothing raises;
\* the process is still signalled, killed (outside a write) and resumed.
NextReliable ==
  \/ \E r \in BOOLEAN : Start(r, FALSE)
  \/ StartAborts
  \/ LoopExit
  \/ LoopEnter
  \/ Discard
  \/ Visit
  \/ Page(FALSE)
  \/ Periodic("ok")
  \/ Links(FALSE)
  \/ Finally("ok")
  \/ handle_shutdown
  \/ Kill

SpecReliable == Init /\ [][NextReliable]_vars

\* One fresh crawl left alone: no signal, no kill, no failure.  The loop is
\* the only thread and every call in it returns, so each step is taken.
NextCrawl ==
  \/ pc = "idle" /\ Start(FALSE, FALSE)
  \/ LoopExit
  \/ LoopEnter
  \/ Discard
  \/ Visit
  \/ Page(FALSE)
  \/ Periodic("ok")
  \/ Links(FALSE)
  \/ Finally("ok")

SpecCrawl == InitFixedWeb /\ [][NextCrawl]_vars /\ WF_vars(NextCrawl)

\* normalize_url alone, applied to a link and to its own result.
NextNormalize == Normalize

SpecNormalize == InitNormalize /\ [][NextNormalize]_vars

\* One fresh crawl that signals may reach at any moment.  Fetches may fail
\* and the page save may raise; the state file can be written.  The loop
\* takes its steps whatever the signals do; nothing makes a signal come.
LoopStep ==
  \/ LoopExit
  \/ LoopEnter
  \/ Discard
  \/ Visit
  \/ \E f \in BOOLEAN : Page(f)
  \/ PageRaises
  \/ Periodic("ok")
  \/ \E f \in BOOLEAN : Links(f)
  \/ Finally("ok")

NextSignalled ==
  \/ pc = "idle" /\ \E f \in BOOLEAN : Start(FALSE, f)
  \/ LoopStep
  \/ handle_shutdown

SpecSignalled == Init /\ [][NextSignalled]_vars /\ WF_vars(LoopStep)

\* Crawls no signal reaches and nothing kills, started fresh or resumed over
\* any web; fetches may fail (each returns) and the page save may raise.
NextUnattended ==
  \/ \E r \in BOOLEAN, f \in BOOLEAN : Start(r, f)
  \/ StartAborts
  \/ LoopStep

SpecUnattended == Init /\ [][NextUnattended]_vars /\ WF_vars(LoopStep)


\* ------------------------------------------------------------------ claims

\* The checkpoint the state file holds, as load_state would return it.
OnDisk == Load(disk.bytes)
HasCheckpoint == disk.exists /\ Complete(OnDisk)
Memory == State(queue, visited, page_count, crawled_pages)
UrlsOf(q) == {q[i][1] : i \in 1..Len(q)}
\* A step of a running process that leaves it running.
InRun == pc \in Running /\ pc' \in Running
\* A step that takes an entry off the frontier.
Dequeues ==
  pc = "body" /\ pc' \in {"head", "page"} /\ Len(queue') = Len(queue) - 1

\* C1: within a run (fresh or resumed) the visited set only grows, and only by
\* the url at the head of the frontier, not visited before, at the step that
\* dequeues it; a dequeue of a url already visited leaves visited,
\* page_count and crawled_pages as they were and only drops the head entry.
C1_ProcessedOnce ==
  [][InRun =>
       /\ visited \subseteq visited'
       /\ visited' # visited =>
            /\ Dequeues
            /\ Head(queue)[1] \notin visited
            /\ visited' = visited \cup {Head(queue)[1]}
            /\ queue' = Tail(queue)
            /\ crawled_pages' = crawled_pages + 1
       /\ (Dequeues /\ Head(queue)[1] \in visited) =>
            /\ queue' = Tail(queue)
            /\ UNCHANGED <<visited, page_count, crawled_pages>>
       /\ crawled_pages' # crawled_pages => visited' # visited]_vars

\* C1 witness: a resumed run has just discarded an entry for a visited url
\* (its depth is not the depth the url was processed at).
C1_Witness ==
  /\ resumed
  /\ pc = "head"
  /\ cur[1] \in visited
  /\ cur[2] # depthOf[cur[1]]

\* C2 (as claimed): every checkpoint on disk is closed under links: each
\* visited url processed below max_depth has all its links in the
\* checkpoint's visited set or frontier.
C2_CheckpointClosed ==
  HasCheckpoint =>
    \A u \in OnDisk.state.visited :
      depthOf[u] < max_depth =>
        UNION links[u] \subseteq
          OnDisk.state.visited \cup UrlsOf(OnDisk.state.queue)

\* C3: once the function has left the loop and ended (returned, or let an
\* exception through), save_state has run in the finally block, and if it
\* succeeded the state file loads back to the crawl state in memory.
C3_FinalCheckpoint ==
  pc \in {"done", "crashed"} =>
    /\ saved \in {"ok", "err"}
    /\ saved = "ok" => HasCheckpoint /\ OnDisk.state = Memory

\* C3 witness: the loop was left by an exception, with entries still queued,
\* and the final checkpoint was written.
C3_Witness ==
  pc = "crashed" /\ saved = "ok" /\ queue # << >> /\ visited # {}

\* C4: a crawl state saved on exit and resumed is restored as it was (an
\* empty frontier and visited set included, not taken for "no state"), and
\* the first entry the resumed run dequeues is the head of the saved frontier.
C4_RoundTrip ==
  [][/\ (pc \in {"done", "crashed"} /\ saved = "ok" /\ pc' = "head") =>
          /\ resumed'
          /\ queue' = queue
          /\ visited' = visited
          /\ page_count' = page_count
          /\ crawled_pages' = crawled_pages
     /\ (resumed /\ cur = NoCur /\ cur' # NoCur /\ HasCheckpoint) =>
          /\ OnDisk.state.queue # << >>
          /\ cur' = Head(OnDisk.state.queue)]_vars

\* C4 witness: a run resumed from a checkpoint with an empty frontier and an
\* empty visited set.
C4_WitnessEmpty ==
  resumed /\ pc = "head" /\ cur = NoCur /\ queue = << >> /\ visited = {}

\* C4 witness of the scenario: a resumed run has dequeued its first entry, at
\* depth 2, with page_count restored above 0.
C4_WitnessResumed ==
  resumed /\ pc = "page" /\ cur[2] = 2 /\ page_count > 0 /\ runs = 2

\* The pages within max_depth links of the start page.
RECURSIVE Within(_)
Within(d) ==
  IF d <= 0 THEN {}
  ELSE IF d = 1 THEN UNION links[url]
  ELSE Within(d - 1) \cup UNION {UNION links[u] : u \in Within(d - 1)}

Reachable == Within(max_depth)
Acceptable == {u \in URLs : \A n \in lines[u] : Accepted(n)}
IsPrefix(q, r) == Len(q) <= Len(r) /\ SubSeq(r, 1, Len(q)) = q
NewEntries(q, r) == SubSeq(r, Len(q) + 1, Len(r))
Distinct(q) == \A i, j \in 1..Len(q) : i # j => q[i][1] # q[j][1]
\* The step that enqueues a page's links, and the step that seeds a fresh crawl.
EnqueueStep == pc = "links" /\ pc' = "head"
SeedStep == pc \in Stopped /\ pc' = "head" /\ ~resumed'

\* What is left to do, in lexicographic order: the urls not yet visited, the
\* steps left in the iteration in flight, the entries in the frontier (and
\* the loop test before each).
Phase ==
  CASE pc = "idle" -> 6
    [] pc = "page" -> 5
    [] pc = "periodic" -> 4
    [] pc = "links" -> 3
    [] pc \in {"head", "body"} -> 2
    [] pc = "finally" -> 1
    [] OTHER -> 0
Measure ==
  <<Cardinality(URLs \ visited), Phase,
    2 * Len(queue) + (IF pc = "head" THEN 1 ELSE 0)>>
Less(m, n) ==
  \/ m[1] < n[1]
  \/ m[1] = n[1] /\ m[2] < n[2]
  \/ m[1] = n[1] /\ m[2] = n[2] /\ m[3] < n[3]
Enough == Cardinality(Reachable \cap Acceptable) >= max_pages

\* C5: a fresh crawl left alone (no stop request, no failure) over a web
\* whose start page reaches, within max_depth, at least max_pages pages that
\* would be accepted, leaves its loop only with page_count = max_pages and
\* ends so; and it does end, every step bringing it closer: each step
\* lowers what is left to do, and only the end state has no step to take.
C5_BudgetTermination ==
  /\ [](pc # "done" => ENABLED NextCrawl)
  /\ [][/\ Less(Measure', Measure)
        /\ (pc' \in {"finally", "done"} /\ Enough) =>
             page_count' = max_pages]_vars

\* C5 witness: the crawl ended on its budget, the last page accepted found
\* at depth 2.
C5_Witness ==
  /\ pc = "done"
  /\ page_count = max_pages
  /\ cur[2] = 2
  /\ Cardinality(Reachable \cap Acceptable) >= max_pages

\* C6: page_count never exceeds max_pages, and from the moment it equals
\* max_pages a running crawl dequeues and processes nothing more: visited and
\* the counters stay, and the frontier keeps every entry it holds.
C6_BudgetNotOvershot ==
  [][/\ page_count' <= max_pages
     /\ (InRun /\ page_count = max_pages) =>
          /\ UNCHANGED <<visited, page_count, crawled_pages>>
          /\ IsPrefix(queue, queue')]_vars

\* C6 witness: the crawl ended on its budget with entries left in the frontier.
C6_Witness ==
  pc = "done" /\ page_count = max_pages /\ queue # << >> /\ ~shutdown_flag

\* C7: seed entries have depth 1, the entries enqueued for a page dequeued at
\* depth d have depth d + 1, and no frontier entry is deeper than max_depth.
C7_DepthMonotone ==
  [][/\ \A i \in 1..Len(queue') : queue'[i][2] \in 1..max_depth
     /\ EnqueueStep =>
          /\ IsPrefix(queue, queue')
          /\ \A i \in Len(queue) + 1..Len(queue') : queue'[i][2] = cur[2] + 1
     /\ SeedStep => \A i \in 1..Len(queue') : queue'[i][2] = 1]_vars

\* C7 witness: a page dequeued at depth max_depth - 1 has just had a link
\* enqueued at max_depth.
C7_Witness ==
  /\ pc = "head"
  /\ cur[2] = max_depth - 1
  /\ queue # << >>
  /\ queue[Len(queue)][2] = max_depth

\* C8: the frontier is first in, first out: a running crawl only removes the
\* head entry (which becomes the current one) or appends behind the entries
\* it holds; a checkpoint holds the frontier in its order, and a resume
\* restores that order.
C8_Fifo ==
  [][/\ InRun =>
          \/ queue' = queue
          \/ Dequeues /\ queue' = Tail(queue) /\ cur' = Head(queue)
          \/ EnqueueStep /\ IsPrefix(queue, queue')
     /\ (disk' # disk /\ saved' = "ok") =>
          /\ queue' = queue
          /\ Load(disk'.bytes).state.queue = queue
     /\ (pc \in Stopped /\ resumed') => queue' = OnDisk.state.queue]_vars

\* C8 witness: a resumed run has dequeued an entry and holds two more, the
\* last one enqueued after the resume.
C8_Witness ==
  /\ resumed
  /\ pc = "head"
  /\ cur # NoCur
  /\ Len(queue) >= 2
  /\ Len(queue) > Len(OnDisk.state.queue) - 1

\* C9 (as claimed): the frontier never holds two entries for the same url.
C9_NoDuplicateEntries == Distinct(queue)

\* C9 (amended): an enqueue step appends only urls not in the visited set,
\* each at most once, and so does the seeding; nothing keeps a url not yet
\* visited from being appended again by another page.
C9_EnqueueGuard ==
  [][/\ EnqueueStep =>
          /\ IsPrefix(queue, queue')
          /\ Distinct(NewEntries(queue, queue'))
          /\ UrlsOf(NewEntries(queue, queue')) \cap visited = {}
     /\ SeedStep => Distinct(queue')]_vars

\* C9 witness: the frontier holds two entries for one url, the second
\* appended while the url was not yet visited.
C9_Witness ==
  /\ pc = "head"
  /\ ~Distinct(queue)
  /\ UrlsOf(queue) \cap visited = {}

\* C10 (as claimed): a run resumed from the checkpoint never writes a page
\* file whose index is already on disk.
C10_NoOverwrite ==
  [][(resumed /\ pc = "page" /\ page_count' = page_count + 1) =>
       (page_count + 1) \notin DOMAIN files]_vars

\* ------------------------------------------------------------------ C11

\* A process starts (and enters the loop or ends before it).
StartStep == pc \in Stopped /\ runs' = runs + 1

\* C11: a start that finds no state file, or one that does not load to a
\* complete crawl state, does not crash: it enters the loop with a fresh
\* crawl state (nothing visited, counters zero, the frontier seeded at depth 1).
C11_BadCheckpointStartsFresh ==
  [][(StartStep /\ ~HasCheckpoint) =>
       /\ pc' = "head"
       /\ ~resumed'
       /\ visited' = {}
       /\ page_count' = 0
       /\ crawled_pages' = 0
       /\ \A i \in 1..Len(queue') : queue'[i][2] = 1]_vars

\* ------------------------------------------------------------------ C12

\* C12: the loop learns of a stop request at its head only.  The body is
\* never entered with the flag set, and an entry is dequeued in the body
\* only, so a signal is followed by at most the one dequeue of a body
\* already entered; the iteration in flight goes through its steps (the
\* dequeued page marked visited and counted, the page step, the links step)
\* and leaves the loop from the head, or by an exception; at the head with
\* the flag set the loop is left with the crawl state as it is; and once
\* the flag is set the function ends, the final checkpoint written.
C12_CooperativeStop ==
  /\ [][/\ (pc' = "body" /\ pc # "body") => (pc = "head" /\ ~shutdown_flag)
        /\ (queue' # queue /\ Len(queue') < Len(queue)) => pc = "body"
        /\ (shutdown_flag /\ pc = "head" /\ pc' # pc) =>
             (pc' = "finally" /\ UNCHANGED crawl)
        /\ (shutdown_flag /\ pc = "body" /\ pc' # pc) =>
             \/ pc' = "head" /\ Skip(cur'[1], cur'[2]) /\ visited' = visited
             \/ /\ pc' = "page"
                /\ visited' = visited \cup {cur'[1]}
                /\ crawled_pages' = crawled_pages + 1
        /\ (shutdown_flag /\ pc = "page" /\ pc' # pc) =>
             \/ pc' \in {"periodic", "links"}
             \/ pc' = "finally" /\ exc' # "none"
        /\ (shutdown_flag /\ pc = "periodic" /\ pc' # pc) => pc' = "links"
        /\ (shutdown_flag /\ pc = "links" /\ pc' # pc) =>
             (pc' = "head" /\ IsPrefix(queue, queue'))]_vars
  /\ [](pc \in {"done", "crashed"} =>
         (saved = "ok" /\ HasCheckpoint /\ OnDisk.state = Memory))
  /\ (shutdown_flag ~> pc \in {"done", "crashed"})

\* C12 witness: a crawl ended on a stop request (entries left, the budget not
\* spent), after an iteration that saved a page and enqueued its links, with
\* the final checkpoint on disk.
C12_Witness ==
  /\ pc = "done"
  /\ shutdown_flag
  /\ page_count \in 1..max_pages - 1
  /\ cur # NoCur
  /\ queue # << >>
  /\ queue[Len(queue)][2] = cur[2] + 1
  /\ HasCheckpoint

\* ------------------------------------------------------------------ C13

\* C13: the handler touches the flag alone.  A step that sets the flag (the
\* first signal) changes nothing else: not the frontier, the visited set, the
\* counters, the state file, the page files or where the loop is.  A signal
\* that finds the flag set changes nothing at all.  While the process lives
\* the flag, once set, stays set.
C13_HandlerFrame ==
  [][/\ (pc \in Running /\ ~shutdown_flag /\ shutdown_flag') =>
          UNCHANGED <<pc, crawl, cur, exc, saved, resumed, disk, files>>
     /\ (shutdown_flag /\ handle_shutdown) => UNCHANGED vars
     /\ (shutdown_flag /\ pc \in Running /\ pc' # "killed") =>
          shutdown_flag']_vars

\* C13 witness: the flag was set in the middle of an iteration, with a
\* checkpoint on disk, entries in the frontier and a page saved.
C13_Witness ==
  /\ shutdown_flag
  /\ pc = "links"
  /\ HasCheckpoint
  /\ queue # << >>
  /\ page_count > 0

\* ------------------------------------------------------------------ C14

\* C14: a failed fetch does not end the crawl.  When the text extraction of
\* the dequeued url fails, the url is in the visited set and stays counted,
\* no page is saved or counted as saved, and the iteration goes on to its
\* links step; when its link fetch fails, the frontier is left as it is and
\* the loop is back at its head; neither raises.
C14_FailureTolerated ==
  [][/\ Page(TRUE) =>
          /\ cur[1] \in visited'
          /\ crawled_pages' = crawled_pages
          /\ page_count' = page_count
          /\ files' = files
          /\ pc' = "links"
          /\ exc' = "none"
     /\ Links(TRUE) =>
          /\ cur[1] \in visited'
          /\ queue' = queue
          /\ UNCHANGED <<visited, page_count, crawled_pages>>
          /\ pc' = "head"
          /\ exc' = "none"]_vars

\* C14 witness: two urls visited and counted, none saved and none enqueued
\* by the first, and the loop has gone on to the second.
C14_Witness ==
  /\ pc = "page"
  /\ runs = 1
  /\ crawled_pages = 2
  /\ Cardinality(visited) = 2
  /\ page_count = 0
  /\ \A i \in 1..Len(queue) : queue[i][2] = 1

\* ------------------------------------------------------------------ C15

\* C15: the pages saved never outnumber the pages crawled: in memory at
\* every moment of a fresh or a resumed run, and in every checkpoint the
\* state file holds.
C15_SavedAtMostCrawled ==
  /\ page_count <= crawled_pages
  /\ LET ld == OnDisk
     IN  (disk.exists /\ Complete(ld)) =>
           ld.state.page_count <= ld.state.crawled_pages

\* C15 witness: a resumed run has saved every page it and the runs before it
\* crawled, the last one after the resume.
C15_Witness ==
  /\ resumed
  /\ pc = "links"
  /\ page_count = crawled_pages
  /\ page_count > OnDisk.state.page_count
  /\ OnDisk.state.page_count > 0

\* ------------------------------------------------------------------ C16

\* A string that starts with http: or https: and a single slash: no second
\* slash follows, whether another character or nothing does.
SingleSlash(u) ==
  \E scheme \in {Http, Https} :
    /\ StartsWith(u, scheme \o <<":", "/">>)
    /\ ~StartsWith(u, scheme \o <<":", "/", "/">>)

\* The same, with a character after the slash.
SingleSlashThenMore(u) ==
  \E scheme \in {Http, Https} :
    /\ SingleSlash(u)
    /\ StartsWith(u, scheme \o <<":", "/">>)
    /\ Len(u) > Len(scheme) + 2

\* The two-slash form of a string that starts with a scheme and a slash.
Repaired(u) ==
  LET k == IF StartsWith(u, Https) THEN 7 ELSE 6
  IN  [i \in 1..Len(u) + 1 |-> IF i <= k THEN u[i] ELSE u[i - 1]]

\* C16 (as claimed): a link with a single slash after http: or https: comes
\* out of normalize_url in the two-slash form.
C16_RepairsSingleSlash ==
  (applied = 1 /\ SingleSlash(href)) => full_url = Repaired(href)

\* C16 (amended): a link with a single slash after http: or https: and a
\* character after it comes out in the two-slash form; every other string
\* comes out as it went in (a well-formed url, and "http:/" and "https:/"
\* with nothing after the slash); and normalizing the result changes nothing.
C16_Normalize ==
  /\ [](applied = 1 =>
          IF SingleSlashThenMore(href)
            THEN full_url = Repaired(href)
            ELSE full_url = href)
  /\ [][applied = 1 => full_url' = full_url]_vars

\* C16 witness: http:/x/ has been repaired to http://x/ and normalized again.
C16_Witness ==
  /\ applied = 2
  /\ href = Http \o <<":", "/", "x", "/">>
  /\ full_url = Http \o <<":", "/", "/", "x", "/">>

\* ------------------------------------------------------------------ C17

\* Depths that do not decrease from head to tail, last at most one above
\* first.
LevelOrdered(q) ==
  /\ \A i \in 1..Len(q) - 1 : q[i][2] <= q[i + 1][2]
  /\ q # << >> => q[Len(q)][2] - q[1][2] <= 1

\* C17: the crawl goes level by level.  The frontier's depths never decrease
\* from head to tail and span at most two levels, the level of the entry
\* last dequeued and the one below it; so does the frontier of every
\* checkpoint the state file holds, and of a run resumed from one; and within
\* a run each entry dequeued is at least as deep as the one before it.
C17_LevelOrder ==
  /\ [](/\ LevelOrdered(queue)
        /\ HasCheckpoint => LevelOrdered(OnDisk.state.queue)
        /\ cur # NoCur =>
             \A i \in 1..Len(queue) :
               queue[i][2] \in {cur[2], cur[2] + 1})
  /\ [][(Dequeues /\ cur # NoCur) => cur'[2] >= cur[2]]_vars

\* C17 witness: a resumed run has processed an entry of depth 1 and holds
\* entries of depth 1 followed by entries of depth 2.
C17_Witness ==
  /\ resumed
  /\ pc = "head"
  /\ cur[2] = 1
  /\ Len(queue) >= 2
  /\ queue[1][2] = 1
  /\ queue[Len(queue)][2] = 2

\* ------------------------------------------------------------------ C18

C19_Terminates ==
  /\ [][InRun => Less(Measure', Measure)]_vars
  /\ [](pc \in Running => ENABLED LoopStep)
  /\ [](pc \in {"done", "crashed"} =>
         (saved = "ok" /\ HasCheckpoint /\ OnDisk.state = Memory))
  /\ (pc \in Running ~> pc \in {"done", "crashed"})

\* C19 witness: a crawl has ended with its budget not reached and no stop
\* request: every url visited, the frontier empty.
C19_Witness ==
  /\ pc = "done"
  /\ ~shutdown_flag
  /\ page_count < max_pages
  /\ queue = << >>
  /\ visited = URLs

\* ------------------------------------------------------------------ C20

\* C20: crawled_pages is the number of urls in the visited set: at the loop
\* head (and at every other point of the model's loop) of a fresh or
\* resumed crawl, and in every checkpoint the state file holds.
C20_CrawledIsVisited ==
  /\ pc \in Running => crawled_pages = Cardinality(visited)
  /\ LET ld == OnDisk
     IN  (disk.exists /\ Complete(ld)) =>
           ld.state.crawled_pages = Cardinality(ld.state.visited)

\* C20 witness: a run resumed from a checkpoint of one visited url is at its
\* loop head with two more visited.
C20_Witness ==
  /\ resumed
  /\ pc = "head"
  /\ HasCheckpoint
  /\ OnDisk.state.crawled_pages = 1
  /\ crawled_pages = 3

=============================================================================
